---- MODULE Spec2Model ----
(***************************************************************************)
(* Task lifecycle of the Giulianni Law Firm AI backend: the Status Store   *)
(* (backend/agents/status.py), the two dispatch endpoints                  *)
(* (backend/main.py) and the two pipelines run as background tasks         *)
(* (backend/agents/crew_runner.py), together with a polling client.        *)
(***************************************************************************)
EXTENDS Integers, Sequences, FiniteSets, TLC

(* ---------------------------------------------------------------- bounds *)

\* Number of requests the dispatch endpoints receive.
MaxTasks == 1

\* Number of upserts of the Status Store that fail (raise or report an error).
MaxFaults == 1

\* Calls of the status utility endpoint.
MaxTestUpdates == 1

\* Number of parse requests of one process whose runs are compared.
MaxParseRuns == 2

(* ------------------------------------------------------------ vocabulary *)

\* Python's None, JSON null, SQL NULL.
Null == "null"

\* No task id: None or the empty string (both falsy in `if not task_id`).
NoId == 0

Slots == 1 .. MaxTasks

TerminalStatuses == {"completed", "completed_with_issues", "error"}

\* Columns of table ai_processing_tasks.
Columns ==
  {"id", "status", "details", "error_message", "result", "crew_type",
   "user_id", "created_at", "last_updated"}

\* How one execution of supabase...upsert(record).execute() can end.
UpsertModes == {"ok", "raises", "error_response"}

\* user_id values of a generate-document request: absent, a UUID, not a UUID.
UserIds == {Null, "7d1f0c3a-uuid", "not-a-uuid"}

ValidUUIDs == {"7d1f0c3a-uuid"}

VARIABLES
  envSupabase,   \* SUPABASE_URL and SUPABASE_SERVICE_KEY are both set
  supabase,      \* create_client(url, key) succeeds: status.py's client is not None
  envGoogleKey,  \* GOOGLE_API_KEY is set
  llm,           \* per request: its runner's llm is not None (key set, LLM constructed)
  table,         \* rows of ai_processing_tasks
  clock,         \* the database's now()
  nextId,        \* the next value uuid.uuid4() yields
  faults,        \* failed upserts so far
  pc,            \* per request: position of the request / its background run
  kind,          \* per request: "parse" | "draft" | Null
  main_task_id,  \* per request: the id the endpoint got back and handed to the run
  run_user_id,   \* per request: the user_id argument handed to the run
  outcome,       \* per request: what the background run returned (or that it raised)
  calls,         \* per request: the update_task_status calls made for it
  schedAt,       \* per request: number of such calls made when add_task was called
  response,      \* per request: the HTTP response of the dispatch
  storage,       \* requests whose generated document is in the storage bucket
  documents,     \* requests with a row in table documents
  ops,           \* per request: the external calls its run made, in order
  fetched,       \* a call of fetch_and_extract_text_from_url: its inputs and result
  seen           \* the polling client: the request it tracks, the last status it read

vars ==
  <<envSupabase, envGoogleKey, supabase, llm, table, clock, nextId, faults, pc, kind,
    main_task_id, run_user_id, outcome, calls, schedAt, response, storage,
    documents, ops, fetched, seen>>

(* ---------------------------------------------------------- Status Store *)

\* Variant of Upsert: a plain INSERT into a table without the key on id, so a
\* second write for an id adds a row instead of replacing the first.
Upsert_InsertOnly(tbl, rec, now) ==
  tbl \cup {[c \in Columns |->
              IF c \in DOMAIN rec THEN rec[c]
              ELSE IF c \in {"created_at", "last_updated"} THEN now
              ELSE Null]}

\* Variant of Upsert: the table has no set_timestamp trigger, so an update
\* leaves last_updated as the insert set it.
Upsert_WithoutTimestampTrigger(tbl, rec, now) ==
  LET old == {r \in tbl : r.id = rec.id}
      fresh == [c \in Columns |->
                  IF c \in DOMAIN rec THEN rec[c]
                  ELSE IF c \in {"created_at", "last_updated"} THEN now
                  ELSE Null]
      merged(r) == [c \in Columns |-> IF c \in DOMAIN rec THEN rec[c] ELSE r[c]]
  IN  IF old = {} THEN tbl \cup {fresh}
      ELSE (tbl \ old) \cup {merged(r) : r \in old}

\* INSERT ... ON CONFLICT (id) DO UPDATE of one record: a new row takes the
\* schema's defaults for the columns the record leaves out; an existing row
\* keeps them, and the set_timestamp trigger refreshes last_updated.
Upsert(tbl, rec, now) ==
  LET old == {r \in tbl : r.id = rec.id}
      fresh == [c \in Columns |->
                  IF c \in DOMAIN rec THEN rec[c]
                  ELSE IF c \in {"created_at", "last_updated"} THEN now
                  ELSE Null]
      merged(r) == [c \in Columns |->
                      IF c \in DOMAIN rec THEN rec[c]
                      ELSE IF c = "last_updated" THEN now
                      ELSE r[c]]
  IN  IF old = {} THEN tbl \cup {fresh}
      ELSE (tbl \ old) \cup {merged(r) : r \in old}

\* uuid.UUID(user_id) does not raise ValueError.
IsUUID(u) == u \in ValidUUIDs

\* Variant of StatusRecord: the text is routed by status, but the other text
\* column is left out of the record instead of being set to None, so the
\* upsert keeps what the row held.
StatusRecord_KeepsOther(id, current_status, details, result_data, crew_type, user_id) ==
  LET base == [id |-> id,
               status |-> current_status,
               result |-> result_data,
               crew_type |-> crew_type]
      text == IF current_status = "error"
              THEN [error_message |-> details]
              ELSE [details |-> details]
  IN  IF user_id # Null /\ IsUUID(user_id)
      THEN base @@ text @@ [user_id |-> user_id]
      ELSE base @@ text

\* The record update_task_status builds (status.py 160-183).
StatusRecord(id, current_status, details, result_data, crew_type, user_id) ==
  LET base == [id |-> id,
               status |-> current_status,
               result |-> result_data,
               crew_type |-> crew_type,
               error_message |-> IF current_status = "error" THEN details ELSE Null,
               details |-> IF current_status = "error" THEN Null ELSE details]
  IN  IF user_id # Null /\ IsUUID(user_id)
      THEN base @@ [user_id |-> user_id]
      ELSE base

\* Variant of update_task_status: the missing-client branch returns the
\* task_id argument as it came, before an id is generated for a new task.
update_task_status_NoClientNoId(tbl, task_id, current_status, details, result_data, crew_type, user_id, mode, fresh, now) ==
  LET id == IF task_id = NoId THEN fresh ELSE task_id
  IN  IF ~supabase
      THEN [ret |-> task_id, table |-> tbl, generated |-> FALSE,
            written |-> FALSE, raised |-> FALSE]
      ELSE [ret |-> id,
            table |-> IF mode = "ok"
                      THEN Upsert(tbl,
                                  StatusRecord(id, current_status, details,
                                               result_data, crew_type, user_id),
                                  now)
                      ELSE tbl,
            generated |-> (task_id = NoId),
            written |-> (mode = "ok"),
            raised |-> FALSE]

\* update_task_status: `fresh` is what uuid.uuid4() yields if it is called,
\* `mode` how the upsert ends, `now` the database time.  The result holds the
\* returned id, the table afterwards, whether uuid4 was called, whether the row
\* was written, and whether an exception left the function.
update_task_status(tbl, task_id, current_status, details, result_data, crew_type, user_id, mode, fresh, now) ==
  LET id == IF task_id = NoId THEN fresh ELSE task_id
  IN  IF ~supabase
      THEN [ret |-> id, table |-> tbl, generated |-> (task_id = NoId),
            written |-> FALSE, raised |-> FALSE]
      ELSE [ret |-> id,
            table |-> IF mode = "ok"
                      THEN Upsert(tbl,
                                  StatusRecord(id, current_status, details,
                                               result_data, crew_type, user_id),
                                  now)
                      ELSE tbl,
            generated |-> (task_id = NoId),
            written |-> (mode = "ok"),
            raised |-> FALSE]

\* Variant of get_agent_status: the except block reports a failed query with
\* the not_found sentinel.
get_agent_status_FailureAsNotFound(tbl, task_id, queryFails) ==
  LET rows == {r \in tbl : r.id = task_id}
  IN  IF ~supabase THEN [status |-> "error_fetching"]
      ELSE IF queryFails \/ Cardinality(rows) > 1 THEN [status |-> "not_found"]
      ELSE IF rows = {} THEN [status |-> "not_found"]
      ELSE CHOOSE r \in rows : TRUE

\* get_agent_status: the stored row, or one of the two sentinels.  maybe_single()
\* raises when the query matches more than one row; when it matches none,
\* execute() gives a response without data (status.py 281-285 expects
\* not_found for an unknown id).
get_agent_status(tbl, task_id, queryFails) ==
  LET rows == {r \in tbl : r.id = task_id}
  IN  IF ~supabase THEN [status |-> "error_fetching"]
      ELSE IF queryFails \/ Cardinality(rows) > 1 THEN [status |-> "error_fetching"]
      ELSE IF rows = {} THEN [status |-> "not_found"]
      ELSE CHOOSE r \in rows : TRUE

(* ------------------------------------------------- filename validation *)

\* Filenames a parse-document request may carry, as strings of characters:
\* a.pdf, a.docx, a.TXT, a.xlsx, a.zip, a, .txt, a..
Filenames ==
  {<<"a", ".", "p", "d", "f">>,
   <<"a", ".", "d", "o", "c", "x">>,
   <<"a", ".", "T", "X", "T">>,
   <<"a", ".", "x", "l", "s", "x">>,
   <<"a", ".", "z", "i", "p">>,
   <<"a">>,
   <<".", "t", "x", "t">>,
   <<"a", ".">>}

\* ALLOWED_EXTENSIONS of parse_document_endpoint.
ALLOWED_EXTENSIONS ==
  {<<".", "p", "d", "f">>,
   <<".", "d", "o", "c">>,
   <<".", "d", "o", "c", "x">>,
   <<".", "x", "l", "s">>,
   <<".", "x", "l", "s", "x">>,
   <<".", "j", "p", "g">>,
   <<".", "j", "p", "e", "g">>,
   <<".", "p", "n", "g">>,
   <<".", "t", "x", "t">>,
   <<".", "c", "s", "v">>}

\* str.lower() on the characters that occur.
LowerChar(c) ==
  CASE c = "T" -> "t"
    [] c = "X" -> "x"
    [] c = "P" -> "p"
    [] c = "D" -> "d"
    [] c = "F" -> "f"
    [] OTHER -> c

Lower(str) == [i \in 1 .. Len(str) |-> LowerChar(str[i])]

\* os.path.splitext(p)[1] for a name without directory separators: the
\* suffix from the last dot on, unless the name has no dot or only dots
\* before it (a leading dot does not start an extension).
SplitExt(p) ==
  LET dots == {i \in 1 .. Len(p) : p[i] = "."}
      last == IF dots = {} THEN 0 ELSE CHOOSE i \in dots : \A j \in dots : j <= i
  IN  IF last = 0 THEN <<>>
      ELSE IF \E i \in 1 .. (last - 1) : p[i] # "." THEN SubSeq(p, last, Len(p))
      ELSE <<>>

\* Server-side filename validation of parse_document_endpoint: Null if the
\* request passes, else the reason of the 400 response.
ValidateFilename(filename) ==
  LET file_ext == Lower(SplitExt(filename))
  IN  IF file_ext = <<>> THEN "no_extension"
      ELSE IF file_ext \notin ALLOWED_EXTENSIONS THEN "invalid_extension"
      ELSE Null

(* ------------------------------------------------------------ bookkeeping *)

\* The upsert outcomes a call can meet now: a failure needs a client to fail.
ModesNow(f) == IF supabase /\ f < MaxFaults THEN UpsertModes ELSE {"ok"}

\* One update_task_status call as recorded for its request.
Entry(by, given, current_status, details, r) ==
  [by |-> by, given |-> given, status |-> current_status, text |-> details,
   ret |-> r.ret, written |-> r.written, raised |-> r.raised]

Bump(n, b) == IF b THEN n + 1 ELSE n

\* What a background run returned: the "status" and "task_id" of its dict; a run
\* that an exception left has status "raised".  `caught` names the exception a
\* step or collaborator raised inside the run, if one did.
NoOutcome == [status |-> Null, task_id |-> NoId, caught |-> Null]

NoResponse == [code |-> 0, reason |-> Null, task_id |-> NoId, initial_status |-> Null]

NoPoll == [slot |-> 0, status |-> Null]

FreeSlot(k) == pc[k] = "free" /\ \A j \in DOMAIN pc : j < k => pc[j] # "free"

\* The process after start-up: the environment is set and the client of the
\* Status Store is built from it (status.py 79-94), the same for every request
\* of the process; no runner has been constructed.
StartupOf(S) ==
  /\ envSupabase \in BOOLEAN
  /\ supabase \in (IF envSupabase THEN BOOLEAN ELSE {FALSE})
  /\ envGoogleKey \in BOOLEAN
  /\ llm = [k \in S |-> FALSE]
  /\ table = {}
  /\ clock = 1
  /\ nextId = 1
  /\ faults = 0
  /\ pc = [k \in S |-> "free"]
  /\ kind = [k \in S |-> Null]
  /\ main_task_id = [k \in S |-> NoId]
  /\ run_user_id = [k \in S |-> Null]
  /\ outcome = [k \in S |-> NoOutcome]
  /\ calls = [k \in S |-> <<>>]
  /\ schedAt = [k \in S |-> 0]
  /\ response = [k \in S |-> NoResponse]
  /\ storage = {}
  /\ documents = {}
  /\ ops = [k \in S |-> <<>>]
  /\ seen = NoPoll

Startup == StartupOf(Slots)

\* No call of the content fetcher is looked at.
NoFetch == [at |-> "idle"]

Init == Startup /\ fetched = NoFetch

(* -------------------------------------------------------------- dispatch *)

\* Variant of Reject: the queued record is created before the request is
\* validated, so a rejected request leaves a record behind.
Reject_AfterRecord(k, what, code, reason) ==
  LET r == update_task_status(table, NoId, "queued", "queued", Null, Null, Null,
                              "ok", nextId, clock)
  IN  /\ pc' = [pc EXCEPT ![k] = "rejected"]
      /\ kind' = [kind EXCEPT ![k] = what]
      /\ response' = [response EXCEPT ![k] =
                        [code |-> code, reason |-> reason, task_id |-> NoId,
                         initial_status |-> Null]]
      /\ table' = r.table
      /\ clock' = Bump(clock, r.written)
      /\ nextId' = Bump(nextId, r.generated)
      /\ calls' = [calls EXCEPT ![k] =
                     <<[by |-> "dispatcher", given |-> NoId, status |-> "queued",
                        text |-> "queued", ret |-> r.ret, written |-> r.written,
                        raised |-> r.raised]>>]
      /\ UNCHANGED <<envSupabase, envGoogleKey, supabase, llm, faults, main_task_id, run_user_id,
                     outcome, schedAt, storage, documents, ops, fetched, seen>>

\* A request that ends with an HTTP error before any record is created.
Reject(k, what, code, reason) ==
  /\ pc' = [pc EXCEPT ![k] = "rejected"]
  /\ kind' = [kind EXCEPT ![k] = what]
  /\ response' = [response EXCEPT ![k] =
                    [code |-> code, reason |-> reason, task_id |-> NoId,
                     initial_status |-> Null]]
  /\ UNCHANGED <<envSupabase, envGoogleKey, supabase, llm, table, clock, nextId, faults,
                 main_task_id, run_user_id, outcome, calls, schedAt, storage,
                 documents, ops, fetched, seen>>

\* Variant of Accepted: the 202 body is built without the id of the record.
Accepted_WithoutId(id) ==
  [code |-> 202, reason |-> "accepted", task_id |-> NoId, initial_status |-> "queued"]

\* The 202 response of both dispatch endpoints (main.py 118-126, 209-217).
Accepted(id) ==
  [code |-> 202, reason |-> "accepted", task_id |-> id, initial_status |-> "queued"]

\* The 500 responses of the dispatch endpoints.
ServerError(reason) ==
  [code |-> 500, reason |-> reason, task_id |-> NoId, initial_status |-> Null]

\* POST /parse-document/ (main.py 58-126).  The handler constructs a runner
\* of its own (main.py 83, crew_runner.py 774-779), whose __init__ builds the
\* LLM if GOOGLE_API_KEY is set and the constructor does not raise
\* (crew_runner.py 139-155): `llmBuilt`.  add_task is not guarded: if it
\* raises, the exception leaves the handler (a 500) after the queued write.
ParseDocument(k, filename, llmBuilt, addTaskRaises) ==
  /\ FreeSlot(k)
  /\ llmBuilt => envGoogleKey
  /\ IF ValidateFilename(filename) # Null
     THEN Reject(k, "parse", 400, ValidateFilename(filename))
     ELSE \E mode \in ModesNow(faults) :
            LET r == update_task_status(table, NoId, "queued", "parse_queued", Null,
                                        "document_parser", Null, mode, nextId, clock)
            IN  /\ table' = r.table
                /\ clock' = Bump(clock, r.written)
                /\ nextId' = Bump(nextId, r.generated)
                /\ faults' = Bump(faults, mode # "ok")
                /\ calls' = [calls EXCEPT ![k] =
                               <<Entry("dispatcher", NoId, "queued", "parse_queued", r)>>]
                /\ kind' = [kind EXCEPT ![k] = "parse"]
                /\ main_task_id' = [main_task_id EXCEPT ![k] = r.ret]
                /\ IF addTaskRaises
                   THEN /\ pc' = [pc EXCEPT ![k] = "enqueue_failed"]
                        /\ response' = [response EXCEPT ![k] = ServerError("unhandled")]
                        /\ UNCHANGED schedAt
                   ELSE /\ pc' = [pc EXCEPT ![k] = "scheduled"]
                        /\ schedAt' = [schedAt EXCEPT ![k] = Len(calls'[k])]
                        /\ response' = [response EXCEPT ![k] = Accepted(r.ret)]
                /\ llm' = [llm EXCEPT ![k] = llmBuilt]
                /\ UNCHANGED <<envSupabase, envGoogleKey, supabase, run_user_id, outcome,
                               storage, documents, ops, fetched, seen>>

\* POST /generate-document/ (main.py 128-217).  `fieldsOk`: the body has the
\* required fields of GenerateDocumentRequest; `intake`: what the
\* client_intake_data query gave; `llmBuilt`: the runner the handler
\* constructs (main.py 189) has an LLM.
GenerateDocument(k, fieldsOk, intake, uid, llmBuilt, addTaskRaises) ==
  /\ FreeSlot(k)
  /\ llmBuilt => envGoogleKey
  /\ IF ~fieldsOk THEN Reject(k, "draft", 422, "missing_field")
     ELSE IF ~envSupabase THEN Reject(k, "draft", 500, "config_missing")
     ELSE IF ~supabase THEN Reject(k, "draft", 500, "client_init_failed")
     ELSE IF intake = "none" THEN Reject(k, "draft", 404, "no_intake_data")
     ELSE IF intake = "raises" THEN Reject(k, "draft", 500, "fetch_failed")
     ELSE \E mode \in ModesNow(faults) :
            LET r == update_task_status(table, NoId, "queued", "draft_queued", "draft_context",
                                        "document_drafter", uid, mode, nextId, clock)
                f1 == Bump(faults, mode # "ok")
                e1 == Entry("dispatcher", NoId, "queued", "draft_queued", r)
            IN  /\ kind' = [kind EXCEPT ![k] = "draft"]
                /\ main_task_id' = [main_task_id EXCEPT ![k] = r.ret]
                /\ run_user_id' = [run_user_id EXCEPT ![k] = uid]
                /\ nextId' = Bump(nextId, r.generated)
                /\ IF addTaskRaises
                   THEN \E mode2 \in ModesNow(f1) :
                          LET r2 == update_task_status(r.table, r.ret, "error", "enqueue_failed",
                                                       Null, Null, Null, mode2,
                                                       Bump(nextId, r.generated),
                                                       Bump(clock, r.written))
                          IN  /\ table' = r2.table
                              /\ clock' = Bump(Bump(clock, r.written), r2.written)
                              /\ faults' = Bump(f1, mode2 # "ok")
                              /\ calls' = [calls EXCEPT ![k] =
                                             <<e1, Entry("dispatcher", r.ret, "error",
                                                         "enqueue_failed", r2)>>]
                              /\ pc' = [pc EXCEPT ![k] = "enqueue_failed"]
                              /\ response' = [response EXCEPT ![k] =
                                                ServerError("enqueue_failed")]
                              /\ UNCHANGED schedAt
                   ELSE /\ table' = r.table
                        /\ clock' = Bump(clock, r.written)
                        /\ faults' = f1
                        /\ calls' = [calls EXCEPT ![k] = <<e1>>]
                        /\ pc' = [pc EXCEPT ![k] = "scheduled"]
                        /\ schedAt' = [schedAt EXCEPT ![k] = Len(calls'[k])]
                        /\ response' = [response EXCEPT ![k] = Accepted(r.ret)]
                /\ llm' = [llm EXCEPT ![k] = llmBuilt]
                /\ UNCHANGED <<envSupabase, envGoogleKey, supabase, outcome, storage,
                               documents, ops, fetched, seen>>

(* ------------------------------------------------------- pipeline helpers *)

\* crew_runner.py never imports the traceback module (the only `import
\* traceback` is commented out), so evaluating traceback.format_exc() in an
\* except block raises NameError.
traceback_imported == FALSE

\* Variant of PipelineWrite: the runs share one runner, so every run writes
\* under the task id the runner was given last.
PipelineWrite_SharedRunner(k, current_status, details, result_data, crew_type, uid) ==
  \E mode \in ModesNow(faults) :
    LET given == {j \in DOMAIN main_task_id : main_task_id[j] # NoId}
        latest == CHOOSE j \in given : \A i \in given : i <= j
        r == update_task_status(table, main_task_id[latest], current_status, details,
                                result_data, crew_type, uid, mode, nextId, clock)
    IN  /\ table' = r.table
        /\ clock' = Bump(clock, r.written)
        /\ nextId' = Bump(nextId, r.generated)
        /\ faults' = Bump(faults, mode # "ok")
        /\ calls' = [calls EXCEPT ![k] =
                       Append(@, Entry("pipeline", main_task_id[latest], current_status,
                                       details, r))]

\* A pipeline step that makes one update_task_status call for its task id.
PipelineWrite(k, current_status, details, result_data, crew_type, uid) ==
  \E mode \in ModesNow(faults) :
    LET r == update_task_status(table, main_task_id[k], current_status, details,
                                result_data, crew_type, uid, mode, nextId, clock)
    IN  /\ table' = r.table
        /\ clock' = Bump(clock, r.written)
        /\ nextId' = Bump(nextId, r.generated)
        /\ faults' = Bump(faults, mode # "ok")
        /\ calls' = [calls EXCEPT ![k] =
                       Append(@, Entry("pipeline", main_task_id[k], current_status,
                                       details, r))]

NoWrite == UNCHANGED <<table, clock, nextId, faults, calls>>

\* The run returns a dict with this "status" and "task_id".
Return(k, status, task_id, caught) ==
  /\ pc' = [pc EXCEPT ![k] = "returned"]
  /\ outcome' = [outcome EXCEPT ![k] =
                   [status |-> status, task_id |-> task_id, caught |-> caught]]

\* An exception leaves the run and reaches the scheduler.
Escape(k, caught) ==
  /\ pc' = [pc EXCEPT ![k] = "raised"]
  /\ outcome' = [outcome EXCEPT ![k] =
                   [status |-> "raised", task_id |-> NoId, caught |-> caught]]

\* An except block of the drafting helpers (crew_runner.py 587-591, 617-621):
\* tb_str = traceback.format_exc() comes first, then the error write and
\* `return None`, on which the orchestrator returns an error outcome.
HelperExcept(k, details, caught) ==
  IF traceback_imported
  THEN /\ PipelineWrite(k, "error", details, "error_traceback", Null, Null)
       /\ Return(k, "error", main_task_id[k], caught)
  ELSE /\ NoWrite
       /\ Escape(k, caught)

\* Variant of RunCrewExcept: the block has no check of main_task_id, so it goes
\* on to the traceback and the error write whether or not an id is set.
RunCrewExcept_WithoutIdCheck(k, caught) ==
  IF traceback_imported
  THEN /\ PipelineWrite(k, "error", "processing_error", "error_traceback", Null, Null)
       /\ Return(k, "error", main_task_id[k], caught)
  ELSE /\ NoWrite
       /\ Escape(k, caught)

\* The except block of run_crew (crew_runner.py 480-503).
RunCrewExcept(k, caught) ==
  IF main_task_id[k] = NoId
  THEN /\ NoWrite
       /\ Return(k, "error", NoId, caught)
  ELSE IF traceback_imported
  THEN /\ PipelineWrite(k, "error", "processing_error", "error_traceback", Null, Null)
       /\ Return(k, "error", main_task_id[k], caught)
  ELSE /\ NoWrite
       /\ Escape(k, caught)

\* ---- Artifact path of a drafting run ----
\* Text is a tuple of characters.  str.replace(old, ""): every occurrence of
\* old, scanning from the left, is removed.
RECURSIVE replace(_, _)
replace(s, old) ==
  IF Len(s) < Len(old) THEN s
  ELSE IF SubSeq(s, 1, Len(old)) = old
       THEN replace(SubSeq(s, Len(old) + 1, Len(s)), old)
       ELSE <<Head(s)>> \o replace(Tail(s), old)

\* The request's template_id and case_id (main.py 49-51): a template name with
\* or without the ".jinja2" suffix, a hyphenated case identifier.
TemplateIds == { <<"n", "d", "a", ".", "j", "i", "n", "j", "a", "2">>, <<"w", "i", "l", "l">> }
CaseIds == { <<"c", "-", "1">>, <<"c", "-", "2">> }

\* str(uuid.uuid4()) (status.py 151, 155): the textual form of a record id, groups
\* of fixed length joined by hyphens; the first group tells the ids apart.
Digits == <<"0", "1", "2", "3", "4", "5", "6", "7", "8", "9">>
uuid_text(n) == <<Digits[((n \div 10) % 10) + 1], Digits[(n % 10) + 1], "-", "4", "a", "-", "b", "f">>

\* output_filename (crew_runner.py 601).
output_filename_WithoutTaskId(template_id, case_id, task_id) == replace(template_id, <<".", "j", "i", "n", "j", "a", "2">>) \o <<"_">> \o replace(case_id, <<"-">>) \o <<".", "t", "x", "t">>
output_filename(template_id, case_id, task_id) == replace(template_id, <<".", "j", "i", "n", "j", "a", "2">>) \o <<"_">> \o replace(case_id, <<"-">>) \o <<"_">> \o replace(task_id, <<"-">>) \o <<".", "t", "x", "t">>

\* storage_file_path (crew_runner.py 603).
storage_file_path(template_id, case_id, task_id) == case_id \o <<"/">> \o output_filename(template_id, case_id, task_id)

\* The orchestrator's storage_file_path (crew_runner.py 731-737): the value
\* _save_document_to_storage returned, as noted with the upload.
storage_details(k) ==
  LET ups == {i \in DOMAIN ops[k] : ops[k][i].op = "upload"}
  IN  IF ups = {} THEN <<>> ELSE ops[k][CHOOSE i \in ups : TRUE].path

\* result_data of the completed write (crew_runner.py 759-764): its
\* storage_path is the orchestrator's storage_file_path.
completed_result(k) == [storage_path |-> storage_details(k)]

\* The run makes these external calls (LLM, template file, storage, database),
\* in this order, each given as <<call, how it ended>> or, for the upload,
\* <<call, how it ended, path>>; each is noted with the number of status
\* writes made before it.  The insert's storage_path (638) and the path of a
\* remove (663, 673) are the storage_file_path the orchestrator passes on.
External(k, made) == ops' = [ops EXCEPT ![k] = @ \o [i \in 1 .. Len(made) |-> [op |-> made[i][1], res |-> made[i][2], at |-> Len(calls[k]), path |-> IF Len(made[i]) = 3 THEN made[i][3] ELSE IF made[i][1] \in {"insert", "remove"} THEN storage_details(k) ELSE <<>>]]]

UnchangedByRun ==
  UNCHANGED <<envSupabase, envGoogleKey, supabase, llm, kind, main_task_id, run_user_id,
              schedAt, response, fetched, seen>>

(* ------------------------------------------------------ parsing pipeline *)

\* Variant of ErrorPatterns: the check for the unsupported-type message is
\* missing.
ErrorPatterns_WithoutUnsupported ==
  {"Error fetching file", "Error parsing", "resulted in empty content"}

\* Phrases run_crew looks for in extracted_text (crew_runner.py 443-447).
ErrorPatterns ==
  {"Error fetching file", "Text extraction not supported", "Error parsing",
   "resulted in empty content"}

\* Raw output of the parsing task after a kickoff that returned: none, text
\* that is not JSON, JSON that is not an object, or an object whose
\* extracted_text is one of these texts.
Stage1Outputs ==
  {"no_output", "not_json", "json_not_object", "text_not_string", "text_empty",
   "text_fetch_error", "text_unsupported_type", "text_pdf_parse_error",
   "text_empty_content", "text_not_configured", "text_signed_url_error",
   "text_processing_error", "text_document"}

\* The known phrases each extracted_text contains: the strings
\* fetch_and_extract_text_from_url returns (crew_runner.py 51-118) and
\* ordinary document text.
Phrases(out) ==
  CASE out = "text_fetch_error" -> {"Error fetching file"}
    [] out = "text_unsupported_type" -> {"Text extraction not supported"}
    [] out = "text_pdf_parse_error" -> {"Error parsing"}
    [] out = "text_empty_content" -> {"resulted in empty content"}
    [] OTHER -> {}

\* crew_runner.py 432-478: what the run makes of the parsing task's output.
ClassifyStage1(out) ==
  CASE out = "no_output" -> "no_parser_output"
    [] out = "not_json" -> "unknown_parser_output"
    [] out \in {"json_not_object", "text_not_string"} -> "raises"
    [] out = "text_empty" -> "failed"
    [] OTHER -> IF Phrases(out) \cap ErrorPatterns # {} THEN "failed" ELSE "extracted"

\* The dict run_crew stores as result for each classification
\* (crew_runner.py 433-470): its keys, and its text_extraction_status if it
\* has one.  The table holds the classification as the name of this dict.
final_status_details(class) ==
  CASE class = "failed" ->
         [keys |-> {"crew_output", "parsing_task_output", "text_extraction_status",
                    "text_extraction_detail"},
          text_extraction_status |-> "failed"]
    [] class = "unknown_parser_output" ->
         [keys |-> {"crew_output", "parsing_task_output_raw", "text_extraction_status"},
          text_extraction_status |-> "unknown_parser_output"]
    [] class = "no_parser_output" ->
         [keys |-> {"crew_output", "text_extraction_status"},
          text_extraction_status |-> "no_parser_output"]
    [] OTHER ->
         [keys |-> {"crew_output", "parsing_task_output"},
          text_extraction_status |-> Null]

\* run_crew up to its first status write (crew_runner.py 273-297).
RunCrewStart(k) ==
  /\ pc[k] = "scheduled"
  /\ kind[k] = "parse"
  /\ PipelineWrite(k, "in_progress", "ai_started", Null, Null, Null)
  /\ pc' = [pc EXCEPT ![k] = "p_kickoff"]
  /\ UNCHANGED <<outcome, storage, documents, ops>>
  /\ UnchangedByRun

\* Variant of RunCrewKickoff: the status write after the kickoff puts the
\* record back to queued.
RunCrewKickoff_Requeues(k, kickoffRaises) ==
  /\ pc[k] = "p_kickoff"
  /\ IF llm[k] /\ kickoffRaises
     THEN RunCrewExcept(k, "kickoff_error")
     ELSE /\ PipelineWrite(k, "queued", "generating_followups", Null, Null, Null)
          /\ pc' = [pc EXCEPT ![k] = "p_finish"]
          /\ UNCHANGED outcome
  /\ External(k, IF llm[k]
                 THEN <<<<"kickoff", IF kickoffRaises THEN "raises" ELSE "ok">>>>
                 ELSE <<>>)
  /\ UNCHANGED <<storage, documents>>
  /\ UnchangedByRun

\* What run_crew stores as crew_output (crew_runner.py 378, 414-428): the
\* value crew.kickoff returned or the JSON of the mock task definitions.
actual_crew_result(has_llm) ==
  IF has_llm THEN "crew_kickoff_result" ELSE "mock_task_definitions"

\* Variant of RunCrewKickoff: the crew is kicked off whether or not the runner
\* has an LLM.
RunCrewKickoff_AlwaysKicksOff(k, kickoffRaises) ==
  /\ pc[k] = "p_kickoff"
  /\ IF kickoffRaises
     THEN RunCrewExcept(k, "kickoff_error")
     ELSE /\ PipelineWrite(k, "in_progress",
                           IF llm[k] THEN "generating_followups"
                           ELSE "generating_mock_followups",
                           Null, Null, Null)
          /\ pc' = [pc EXCEPT ![k] = "p_finish"]
          /\ UNCHANGED outcome
  /\ External(k, <<<<"kickoff", IF kickoffRaises THEN "raises" ELSE "ok">>>>)
  /\ UNCHANGED <<storage, documents>>
  /\ UnchangedByRun

\* crew_runner.py 299-430: with an LLM, crew.kickoff (which may raise) and the
\* in_progress write that follows it; without one, the mock outputs and their
\* in_progress write.  The kickoff runs the crew's two tasks one after the
\* other (Process.sequential, 359-364) and returns when the second is done.
RunCrewKickoff(k, kickoffRaises) ==
  /\ pc[k] = "p_kickoff"
  /\ IF llm[k] /\ kickoffRaises
     THEN RunCrewExcept(k, "kickoff_error")
     ELSE /\ PipelineWrite(k, "in_progress",
                           IF llm[k] THEN "generating_followups"
                           ELSE "generating_mock_followups",
                           Null, Null, Null)
          /\ pc' = [pc EXCEPT ![k] = "p_finish"]
          /\ UNCHANGED outcome
  /\ External(k, IF llm[k]
                 THEN <<<<"kickoff", IF kickoffRaises THEN "raises" ELSE "ok">>>>
                 ELSE <<>>)
  /\ UNCHANGED <<storage, documents>>
  /\ UnchangedByRun

\* crew_runner.py 432-478: `out` is the raw output of the parsing task that the
\* run reads now (none in mock mode, where the crew was never kicked off);
\* then the terminal write and the returned outcome.
RunCrewFinish(k, out) ==
  /\ pc[k] = "p_finish"
  /\ llm[k] \/ out = "no_output"
  /\ LET class == ClassifyStage1(out)
     IN  IF class = "raises"
         THEN RunCrewExcept(k, "output_type_error")
         ELSE IF class = "failed"
         THEN /\ PipelineWrite(k, "completed_with_issues", "finished_extraction_failed",
                               "failed", Null, Null)
              /\ Return(k, "success_with_issues", main_task_id[k], Null)
         ELSE /\ PipelineWrite(k, "completed", "finished_successfully", class, Null, Null)
              /\ Return(k, "success", main_task_id[k], Null)
  /\ UNCHANGED <<storage, documents, ops>>
  /\ UnchangedByRun

\* run_crew called on a runner of its own, not through the endpoint:
\* self.main_task_id = task_id_from_endpoint (crew_runner.py 272), whatever
\* the caller passed.  `given`: the caller passed an id; otherwise it passed
\* None or "", which every test of the id (`if not task_id`, `if not
\* self.main_task_id`) treats alike.  `llmBuilt` as in ParseDocument.
RunCrewCalled(k, given, llmBuilt) ==
  /\ FreeSlot(k)
  /\ llmBuilt => envGoogleKey
  /\ kind' = [kind EXCEPT ![k] = "parse"]
  /\ main_task_id' = [main_task_id EXCEPT ![k] = IF given THEN nextId ELSE NoId]
  /\ nextId' = Bump(nextId, given)
  /\ llm' = [llm EXCEPT ![k] = llmBuilt]
  /\ pc' = [pc EXCEPT ![k] = "scheduled"]
  /\ UNCHANGED <<envSupabase, envGoogleKey, supabase, table, clock, faults, run_user_id,
                 outcome, calls, schedAt, response, storage, documents, ops, fetched, seen>>

(* ----------------------------------------------------- drafting pipeline *)

\* run_document_drafting_crew up to its first status write
\* (crew_runner.py 688-697).
DraftStart(k) ==
  /\ pc[k] = "scheduled"
  /\ kind[k] = "draft"
  /\ PipelineWrite(k, "in_progress", "drafting_started", Null, "document_drafter",
                   run_user_id[k])
  /\ pc' = [pc EXCEPT ![k] = "d_preflight"]
  /\ UNCHANGED <<outcome, storage, documents, ops>>
  /\ UnchangedByRun

\* Variant of DraftPreflight: the template is loaded before the pre-requisite
\* checks are made.
DraftPreflight_LoadsTemplateFirst(k, supabase_client, template) ==
  /\ pc[k] = "d_preflight"
  /\ External(k, <<<<"load_template", template>>>>)
  /\ IF template \in {"not_found", "empty"}
     THEN /\ PipelineWrite(k, "error", "template_load_failed", "template_not_found", Null, Null)
          /\ Return(k, "error", main_task_id[k], Null)
     ELSE IF ~llm[k]
     THEN /\ PipelineWrite(k, "error", "llm_not_available", "llm_not_initialized", Null, Null)
          /\ Return(k, "error", main_task_id[k], Null)
     ELSE IF ~supabase_client
     THEN /\ PipelineWrite(k, "error", "supabase_not_available", "supabase_not_initialized",
                           Null, Null)
          /\ Return(k, "error", main_task_id[k], Null)
     ELSE /\ NoWrite
          /\ pc' = [pc EXCEPT ![k] = "d_generate"]
          /\ UNCHANGED outcome
  /\ UNCHANGED <<storage, documents>>
  /\ UnchangedByRun

\* The pre-requisite checks and the template load (crew_runner.py 699-717);
\* `supabase_client` says whether the runner built its own client in __init__
\* (crew_runner.py 217-227), `template` is what _load_template finds.  The
\* prompt assembly that follows (719-723) formats values that are already JSON
\* and cannot fail.
DraftPreflight(k, supabase_client, template) ==
  /\ pc[k] = "d_preflight"
  /\ External(k, IF llm[k] /\ supabase_client THEN <<<<"load_template", template>>>> ELSE <<>>)
  /\ IF ~llm[k]
     THEN /\ PipelineWrite(k, "error", "llm_not_available", "llm_not_initialized", Null, Null)
          /\ Return(k, "error", main_task_id[k], Null)
     ELSE IF ~supabase_client
     THEN /\ PipelineWrite(k, "error", "supabase_not_available", "supabase_not_initialized",
                           Null, Null)
          /\ Return(k, "error", main_task_id[k], Null)
     ELSE IF template \in {"not_found", "empty"}
     THEN /\ PipelineWrite(k, "error", "template_load_failed", "template_not_found", Null, Null)
          /\ Return(k, "error", main_task_id[k], Null)
     ELSE /\ NoWrite
          /\ pc' = [pc EXCEPT ![k] = "d_generate"]
          /\ UNCHANGED outcome
  /\ UNCHANGED <<storage, documents>>
  /\ UnchangedByRun

\* _execute_drafting_crew_task (crew_runner.py 543-591): the kickoff raises,
\* yields nothing but whitespace (ValueError, raised inside the same try), or
\* yields a document.
DraftGenerate(k, out) ==
  /\ pc[k] = "d_generate"
  /\ IF out \in {"kickoff_raises", "blank"}
     THEN HelperExcept(k,
                       IF out = "blank" THEN "llm_failed_no_document_string"
                       ELSE "llm_failed_kickoff_error",
                       IF out = "blank" THEN "ValueError" ELSE "kickoff_error")
     ELSE /\ NoWrite
          /\ pc' = [pc EXCEPT ![k] = "d_upload"]
          /\ UNCHANGED outcome
  /\ External(k, <<<<"kickoff", out>>>>)
  /\ UNCHANGED <<storage, documents>>
  /\ UnchangedByRun

\* _save_document_to_storage (crew_runner.py 593-621).
DraftUpload(k, template_id, case_id, uploadRaises) ==
  /\ pc[k] = "d_upload"
  /\ IF uploadRaises
     THEN /\ HelperExcept(k, "upload_failed", "upload_error")
          /\ UNCHANGED storage
     ELSE /\ NoWrite
          /\ storage' = storage \cup {k}
          /\ pc' = [pc EXCEPT ![k] = "d_record"]
          /\ UNCHANGED outcome
  /\ External(k, <<<<"upload", IF uploadRaises THEN "raises" ELSE "ok",
                    storage_file_path(template_id, case_id, uuid_text(main_task_id[k]))>>>>)
  /\ UNCHANGED documents
  /\ UnchangedByRun

\* storage...remove([storage_file_path]) inside its own try/except.
Cleanup(k, removeRaises) ==
  storage' = IF removeRaises THEN storage ELSE storage \ {k}

\* The keys of the result_data dict of each status write of the pipelines
\* (crew_runner.py 500-501, 590, 620, 667, 677, 702, 707, 716, 759-764).
result_data_keys(result_data) ==
  CASE result_data = "document_metadata" ->
         {"document_id", "storage_path", "filename", "bucket"}
    [] result_data = "error_traceback" -> {"error_details", "traceback"}
    [] result_data = "db_response" -> {"db_response"}
    [] result_data \in {"llm_not_initialized", "supabase_not_initialized",
                        "template_not_found"} -> {"error_details"}
    [] OTHER -> {}

\* Variant of DraftRecord: a returned row is taken as success whether or not
\* it carries an id.
DraftRecord_IgnoresMissingId(k, insert, removeRaises) ==
  /\ pc[k] = "d_record"
  /\ CASE insert = "raises" ->
            /\ IF traceback_imported
               THEN /\ Cleanup(k, removeRaises)
                    /\ External(k, <<<<"insert", insert>>,
                                   <<"remove", IF removeRaises THEN "raises" ELSE "ok">>>>)
                    /\ PipelineWrite(k, "error", "db_record_failed", "error_traceback",
                                     Null, Null)
                    /\ Return(k, "error", main_task_id[k], "insert_error")
               ELSE /\ NoWrite
                    /\ External(k, <<<<"insert", insert>>>>)
                    /\ Escape(k, "insert_error")
                    /\ UNCHANGED storage
            /\ UNCHANGED documents
       [] insert = "no_row" ->
            /\ Cleanup(k, removeRaises)
            /\ External(k, <<<<"insert", insert>>,
                            <<"remove", IF removeRaises THEN "raises" ELSE "ok">>>>)
            /\ PipelineWrite(k, "error", "db_insert_no_id", "db_response", Null, Null)
            /\ Return(k, "error", main_task_id[k], Null)
            /\ UNCHANGED documents
       [] insert = "row_without_id" ->
            /\ documents' = documents \cup {k}
            /\ External(k, <<<<"insert", insert>>>>)
            /\ NoWrite
            /\ pc' = [pc EXCEPT ![k] = "d_complete"]
            /\ UNCHANGED <<outcome, storage>>
       [] insert = "row_with_id" ->
            /\ documents' = documents \cup {k}
            /\ External(k, <<<<"insert", insert>>>>)
            /\ NoWrite
            /\ pc' = [pc EXCEPT ![k] = "d_complete"]
            /\ UNCHANGED <<outcome, storage>>
  /\ UnchangedByRun

\* Variant of DraftRecord: an exception of the storage remove is not caught.
DraftRecord_CleanupFailurePropagates(k, insert, removeRaises) ==
  /\ pc[k] = "d_record"
  /\ CASE insert = "raises" ->
            /\ IF traceback_imported
               THEN /\ Cleanup(k, removeRaises)
                    /\ External(k, <<<<"insert", insert>>,
                                   <<"remove", IF removeRaises THEN "raises" ELSE "ok">>>>)
                    /\ PipelineWrite(k, "error", "db_record_failed", "error_traceback",
                                     Null, Null)
                    /\ Return(k, "error", main_task_id[k], "insert_error")
               ELSE /\ NoWrite
                    /\ External(k, <<<<"insert", insert>>>>)
                    /\ Escape(k, "insert_error")
                    /\ UNCHANGED storage
            /\ UNCHANGED documents
       [] insert = "no_row" ->
            /\ Cleanup(k, removeRaises)
            /\ External(k, <<<<"insert", insert>>,
                            <<"remove", IF removeRaises THEN "raises" ELSE "ok">>>>)
            /\ IF removeRaises
               THEN /\ NoWrite
                    /\ Escape(k, "remove_error")
               ELSE /\ PipelineWrite(k, "error", "db_insert_no_id", "db_response", Null, Null)
                    /\ Return(k, "error", main_task_id[k], Null)
            /\ UNCHANGED documents
       [] insert = "row_without_id" ->
            /\ documents' = documents \cup {k}
            /\ External(k, <<<<"insert", insert>>>>)
            /\ NoWrite
            /\ Return(k, "error", main_task_id[k], Null)
            /\ UNCHANGED storage
       [] insert = "row_with_id" ->
            /\ documents' = documents \cup {k}
            /\ External(k, <<<<"insert", insert>>>>)
            /\ NoWrite
            /\ pc' = [pc EXCEPT ![k] = "d_complete"]
            /\ UNCHANGED <<outcome, storage>>
  /\ UnchangedByRun

\* _record_document_in_database (crew_runner.py 623-678) and the orchestrator's
\* reaction (745-751).  An insert that returns a row without an id makes the
\* helper return None from its success branch: no cleanup, no status write.
DraftRecord(k, insert, removeRaises) ==
  /\ pc[k] = "d_record"
  /\ CASE insert = "raises" ->
            /\ IF traceback_imported
               THEN /\ Cleanup(k, removeRaises)
                    /\ External(k, <<<<"insert", insert>>,
                                   <<"remove", IF removeRaises THEN "raises" ELSE "ok">>>>)
                    /\ PipelineWrite(k, "error", "db_record_failed", "error_traceback",
                                     Null, Null)
                    /\ Return(k, "error", main_task_id[k], "insert_error")
               ELSE /\ NoWrite
                    /\ External(k, <<<<"insert", insert>>>>)
                    /\ Escape(k, "insert_error")
                    /\ UNCHANGED storage
            /\ UNCHANGED documents
       [] insert = "no_row" ->
            /\ Cleanup(k, removeRaises)
            /\ External(k, <<<<"insert", insert>>,
                            <<"remove", IF removeRaises THEN "raises" ELSE "ok">>>>)
            /\ PipelineWrite(k, "error", "db_insert_no_id", "db_response", Null, Null)
            /\ Return(k, "error", main_task_id[k], Null)
            /\ UNCHANGED documents
       [] insert = "row_without_id" ->
            /\ documents' = documents \cup {k}
            /\ External(k, <<<<"insert", insert>>>>)
            /\ NoWrite
            /\ Return(k, "error", main_task_id[k], Null)
            /\ UNCHANGED storage
       [] insert = "row_with_id" ->
            /\ documents' = documents \cup {k}
            /\ External(k, <<<<"insert", insert>>>>)
            /\ NoWrite
            /\ pc' = [pc EXCEPT ![k] = "d_complete"]
            /\ UNCHANGED <<outcome, storage>>
  /\ UnchangedByRun

\* The final write and return of run_document_drafting_crew
\* (crew_runner.py 753-771).
DraftComplete(k) ==
  /\ pc[k] = "d_complete"
  /\ PipelineWrite(k, "completed", "document_saved", "document_metadata", Null, Null)
  /\ Return(k, "success", main_task_id[k], Null)
  /\ UNCHANGED <<storage, documents, ops>>
  /\ UnchangedByRun

(* -------------------------------------------------------- polling client *)

\* GET /agent-status/ (main.py 239-254) by a client that tracks the task id of
\* one accepted request: it notes the status of the record it gets; a sentinel
\* (not_found, error_fetching) carries no record.
Poll(k, queryFails) ==
  /\ response[k].code = 202
  /\ seen.slot \in {0, k}
  /\ LET got == get_agent_status(table, response[k].task_id, queryFails)
     IN  seen' = IF got.status \in {"not_found", "error_fetching"}
                 THEN seen
                 ELSE [slot |-> k, status |-> got.status]
  /\ UNCHANGED <<envSupabase, envGoogleKey, supabase, llm, table, clock, nextId, faults, pc,
                 kind, main_task_id, run_user_id, outcome, calls, schedAt,
                 response, storage, documents, ops, fetched>>

(* ------------------------------------------------ status utility endpoint *)

\* The update_task_status calls made through POST /test-update-status/.
TestUpdates ==
  {p \in UNION {{<<k, i>> : i \in DOMAIN calls[k]} : k \in Slots} :
     calls[p[1]][p[2]].by = "test_endpoint"}

\* POST /test-update-status/ (main.py 256-266): update_task_status(task_id,
\* status, details) for a task id and a status the caller names; here the id
\* is one that a dispatch created.
TestUpdateStatus(k, status) ==
  /\ main_task_id[k] # NoId
  /\ Cardinality(TestUpdates) < MaxTestUpdates
  /\ \E mode \in ModesNow(faults) :
       LET r == update_task_status(table, main_task_id[k], status, "test_details",
                                   Null, Null, Null, mode, nextId, clock)
       IN  /\ table' = r.table
           /\ clock' = Bump(clock, r.written)
           /\ nextId' = Bump(nextId, r.generated)
           /\ faults' = Bump(faults, mode # "ok")
           /\ calls' = [calls EXCEPT ![k] =
                          Append(@, Entry("test_endpoint", main_task_id[k], status,
                                          "test_details", r))]
  /\ UNCHANGED <<envSupabase, envGoogleKey, supabase, llm, pc, kind, main_task_id, run_user_id,
                 outcome, schedAt, response, storage, documents, ops, fetched, seen>>

(* ------------------------------------------------------- content fetcher *)

\* Text is a sequence of characters.  A text file holds these characters.
Characters == {"a", "e_acute"}

\* The UTF-8 bytes of a character, and of a text.
utf8_char(c) == IF c = "a" THEN <<97>> ELSE <<195, 169>>

RECURSIVE Flatten(_)
Flatten(parts) ==
  IF parts = <<>> THEN <<>> ELSE Head(parts) \o Flatten(Tail(parts))

utf8(text) == Flatten([i \in 1 .. Len(text) |-> utf8_char(text[i])])

\* The character ISO-8859-1 gives each byte.
latin1_char(b) ==
  CASE b = 97 -> "a"
    [] b = 195 -> "A_tilde"
    [] b = 169 -> "copyright"

\* Decoding of well-formed UTF-8 made of the bytes above.
RECURSIVE decode_utf8(_)
decode_utf8(bytes) ==
  IF bytes = <<>> THEN <<>>
  ELSE IF Head(bytes) = 97 THEN <<"a">> \o decode_utf8(Tail(bytes))
  ELSE <<"e_acute">> \o decode_utf8(Tail(Tail(bytes)))

\* response.text (crew_runner.py 92-96): the body decoded with the charset of
\* the Content-Type header, or as ISO-8859-1 when the header names none.
response_text(body, charset) ==
  IF charset = "utf-8" THEN decode_utf8(body)
  ELSE [i \in 1 .. Len(body) |-> latin1_char(body[i])]

\* What a file holds, in parts: the text of each page of a PDF (nothing for a
\* page without text), of each paragraph of a DOCX, or the pieces of a text
\* file; `error` is the exception its parser raises, if it does.
Texts == {<<>>, <<"a">>, <<"e_acute">>}

Contents ==
  {[error |-> "none", parts |-> ps] :
     ps \in {<<>>} \cup {<<t>> : t \in Texts} \cup {<<t, u>> : t, u \in Texts}}
  \cup {[error |-> e, parts |-> <<>>] : e \in {"pdf_read_error", "other_error"}}

\* The text the branch of each file type builds (crew_runner.py 71-96): page
\* texts concatenated; paragraph texts each followed by a newline; the
\* decoded response body.
extracted_text(extension, content, charset) ==
  CASE extension = <<".", "p", "d", "f">> -> Flatten(content.parts)
    [] extension = <<".", "d", "o", "c", "x">> ->
         Flatten([i \in 1 .. Len(content.parts) |-> content.parts[i] \o <<"\n">>])
    [] extension = <<".", "t", "x", "t">> ->
         response_text(utf8(Flatten(content.parts)), charset)
    [] OTHER -> <<>>

\* Variant of fetch_and_extract_text_from_url: a file of any other type is
\* read as plain text.
fetch_and_extract_text_from_url_AnyTypeAsText(configured, create, signed, download, filename, content, charset) ==
  LET extension == Lower(SplitExt(filename))
  IN  IF ~configured THEN "text_not_configured"
      ELSE IF create = "raises" THEN "raises"
      ELSE IF signed = "raises" THEN "raises"
      ELSE IF signed = "request_exception" THEN "text_fetch_error"
      ELSE IF signed = "error_response" THEN "text_signed_url_error"
      ELSE IF download = "request_exception" THEN "text_fetch_error"
      ELSE CASE content.error = "pdf_read_error" -> "text_pdf_parse_error"
             [] content.error = "other_error" -> "text_processing_error"
             [] extracted_text(extension, content, charset) = <<>> -> "text_empty_content"
             [] OTHER -> "text_document"

\* Variant of fetch_and_extract_text_from_url: the handler for requests
\* exceptions is missing, so a failed download reaches the last handler.
fetch_and_extract_text_from_url_NoRequestHandler(configured, create, signed, download, filename, content, charset) ==
  LET extension == Lower(SplitExt(filename))
  IN  IF ~configured THEN "text_not_configured"
      ELSE IF create = "raises" THEN "raises"
      ELSE IF signed = "raises" THEN "raises"
      ELSE IF signed = "request_exception" THEN "raises"
      ELSE IF signed = "error_response" THEN "text_signed_url_error"
      ELSE IF download = "request_exception" THEN "raises"
      ELSE IF extension \in {<<".", "p", "d", "f">>, <<".", "d", "o", "c", "x">>,
                             <<".", "t", "x", "t">>}
      THEN CASE content.error = "pdf_read_error" -> "text_pdf_parse_error"
             [] content.error = "other_error" -> "text_processing_error"
             [] extracted_text(extension, content, charset) = <<>> -> "text_empty_content"
             [] OTHER -> "text_document"
      ELSE "text_unsupported_type"

\* fetch_and_extract_text_from_url (crew_runner.py 34-118).  `configured`: both
\* environment variables are set; `create`: how create_supabase_client ends;
\* `signed`: what create_signed_url gives (a URL, a response without one, a
\* requests exception, any other exception); `download`: how requests.get and
\* raise_for_status end; `content`: what the file holds; `charset`: the
\* charset of the download's Content-Type header.
\* The result names the string returned, or is "raises": the last except block
\* formats `extension`, a local that is unbound until the download succeeded,
\* so an exception other than RequestException before that point leaves the
\* function as UnboundLocalError.
fetch_and_extract_text_from_url(configured, create, signed, download, filename, content, charset) ==
  LET extension == Lower(SplitExt(filename))
  IN  IF ~configured THEN "text_not_configured"
      ELSE IF create = "raises" THEN "raises"
      ELSE IF signed = "raises" THEN "raises"
      ELSE IF signed = "request_exception" THEN "text_fetch_error"
      ELSE IF signed = "error_response" THEN "text_signed_url_error"
      ELSE IF download = "request_exception" THEN "text_fetch_error"
      ELSE IF extension \in {<<".", "p", "d", "f">>, <<".", "d", "o", "c", "x">>,
                             <<".", "t", "x", "t">>}
      THEN CASE content.error = "pdf_read_error" -> "text_pdf_parse_error"
             [] content.error = "other_error" -> "text_processing_error"
             [] extracted_text(extension, content, charset) = <<>> -> "text_empty_content"
             [] OTHER -> "text_document"
      ELSE "text_unsupported_type"

\* The values formatted into each string fetch_and_extract_text_from_url
\* returns (crew_runner.py 51, 60, 78, 88, 97, 102, 106, 110, 115).
message_fields(result) ==
  CASE result = "text_signed_url_error" -> {"error_detail", "file_path", "bucket_name"}
    [] result = "text_empty_content" -> {"filename"}
    [] result = "text_unsupported_type" -> {"extension", "filename", "signed_file_url"}
    [] result = "text_fetch_error" -> {"signed_file_url", "str(e)"}
    [] result = "text_pdf_parse_error" -> {"filename", "signed_file_url", "str(e)"}
    [] result = "text_processing_error" -> {"filename", "extension", "str(e)"}
    [] OTHER -> {}

\* The steps a call of fetch_and_extract_text_from_url goes through, in order
\* (crew_runner.py 45-100): a step is listed when it is begun.
fetch_steps(configured, create, signed, download, filename, content, charset) ==
  LET extension == Lower(SplitExt(filename))
  IN  IF ~configured THEN <<>>
      ELSE IF create = "raises" THEN <<"create_supabase_client">>
      ELSE IF signed # "url" THEN <<"create_supabase_client", "create_signed_url">>
      ELSE IF download = "request_exception"
      THEN <<"create_supabase_client", "create_signed_url", "requests_get">>
      ELSE IF extension \in {<<".", "p", "d", "f">>, <<".", "d", "o", "c", "x">>,
                             <<".", "t", "x", "t">>}
      THEN <<"create_supabase_client", "create_signed_url", "requests_get", "extract">>
      ELSE <<"create_supabase_client", "create_signed_url", "requests_get">>

\* The calls of the fetcher that are looked at: PdfReadError comes from the PDF
\* reader only.
FetchCalls ==
  {c \in [create : {"ok", "raises"},
          signed : {"url", "error_response", "request_exception", "raises"},
          download : {"ok", "request_exception"},
          filename : Filenames,
          content : Contents,
          charset : {"utf-8", "none"}] :
     c.content.error = "pdf_read_error" => Lower(SplitExt(c.filename)) = <<".", "p", "d", "f">>}

\* One call of the tool, from its arguments to what it returns or raises.
FetchAndExtract ==
  /\ fetched.at = "called"
  /\ LET a == fetched.args
         result == fetch_and_extract_text_from_url(
                     envSupabase, a.create, a.signed, a.download, a.filename,
                     a.content, a.charset)
     IN  fetched' = [fetched EXCEPT
                       !.at = "done",
                       !.result = result,
                       !.text = IF result = "text_document"
                                THEN extracted_text(Lower(SplitExt(a.filename)),
                                                    a.content, a.charset)
                                ELSE <<>>,
                       !.steps = fetch_steps(envSupabase, a.create, a.signed, a.download,
                                             a.filename, a.content, a.charset)]
  /\ UNCHANGED <<envSupabase, envGoogleKey, supabase, llm, table, clock, nextId, faults, pc, kind,
                 main_task_id, run_user_id, outcome, calls, schedAt, response,
                 storage, documents, ops, seen>>

InitFetch ==
  /\ Startup
  /\ fetched \in {[at |-> "called", args |-> c, result |-> Null, text |-> <<>>,
                    steps |-> <<>>] : c \in FetchCalls}

NextFetch == FetchAndExtract

\* The content fetcher called once, on any of its inputs.
SpecFetch == InitFetch /\ [][NextFetch]_vars

(* ------------------------------------------------------------------ spec *)

Next ==
  \/ \E k \in Slots, filename \in Filenames, llmBuilt, addTaskRaises \in BOOLEAN :
       ParseDocument(k, filename, llmBuilt, addTaskRaises)
  \/ \E k \in Slots, fieldsOk \in BOOLEAN, intake \in {"data", "none", "raises"},
        uid \in UserIds, llmBuilt, addTaskRaises \in BOOLEAN :
       GenerateDocument(k, fieldsOk, intake, uid, llmBuilt, addTaskRaises)
  \/ \E k \in Slots : RunCrewStart(k)
  \/ \E k \in Slots, kickoffRaises \in BOOLEAN : RunCrewKickoff(k, kickoffRaises)
  \/ \E k \in Slots, out \in Stage1Outputs : RunCrewFinish(k, out)
  \/ \E k \in Slots : DraftStart(k)
  \/ \E k \in Slots, supabase_client \in BOOLEAN, template \in {"not_found", "empty", "text"} :
       DraftPreflight(k, supabase_client, template)
  \/ \E k \in Slots, out \in {"kickoff_raises", "blank", "document"} : DraftGenerate(k, out)
  \/ \E k \in Slots, template_id \in TemplateIds, case_id \in CaseIds, uploadRaises \in BOOLEAN :
       DraftUpload(k, template_id, case_id, uploadRaises)
  \/ \E k \in Slots, insert \in {"raises", "no_row", "row_without_id", "row_with_id"},
        removeRaises \in BOOLEAN : DraftRecord(k, insert, removeRaises)
  \/ \E k \in Slots : DraftComplete(k)
  \/ \E k \in Slots, queryFails \in BOOLEAN : Poll(k, queryFails)

Spec == Init /\ [][Next]_vars

\* The system with all its entry points that write status records: Next and
\* the status utility endpoint.
NextEntryPoints ==
  \/ Next
  \/ \E k \in Slots, status \in {"queued", "in_progress", "completed", "error"} :
       TestUpdateStatus(k, status)

SpecEntryPoints == Init /\ [][NextEntryPoints]_vars

\* One process that receives several parse requests: each constructs its own
\* runner and schedules its own run.
ParseSlots == 1 .. MaxParseRuns

InitParseRuns == StartupOf(ParseSlots) /\ fetched = NoFetch

NextParseRuns ==
  \/ \E k \in ParseSlots, filename \in Filenames, llmBuilt, addTaskRaises \in BOOLEAN :
       ParseDocument(k, filename, llmBuilt, addTaskRaises)
  \/ \E k \in ParseSlots : RunCrewStart(k)
  \/ \E k \in ParseSlots, kickoffRaises \in BOOLEAN : RunCrewKickoff(k, kickoffRaises)
  \/ \E k \in ParseSlots, out \in Stage1Outputs : RunCrewFinish(k, out)

SpecParseRuns == InitParseRuns /\ [][NextParseRuns]_vars

\* The parsing pipeline as a unit: run_crew is called with or without a task
\* id and runs to its end.
NextRunCrew ==
  \/ \E k \in Slots, given, llmBuilt \in BOOLEAN : RunCrewCalled(k, given, llmBuilt)
  \/ \E k \in Slots : RunCrewStart(k)
  \/ \E k \in Slots, kickoffRaises \in BOOLEAN : RunCrewKickoff(k, kickoffRaises)
  \/ \E k \in Slots, out \in Stage1Outputs : RunCrewFinish(k, out)

SpecRunCrew == Init /\ [][NextRunCrew]_vars

(* ------------------------------------------------------------ properties *)

\* C1: with the Status Store available (a client, and every write landed),
\* once nothing is left to run for a request that created a record (its
\* background run ended, or scheduling it failed), get_agent_status shows a
\* terminal status for its task id.  No action changes the record of such a
\* request, so a state that violates this is a record that stays non-terminal
\* forever.
C1_CreatedTaskEndsTerminal ==
  \A k \in Slots :
    (/\ supabase
     /\ pc[k] \in {"returned", "raised", "enqueue_failed"}
     /\ calls[k] # <<>>
     /\ \A i \in DOMAIN calls[k] : calls[k][i].written)
    => get_agent_status(table, main_task_id[k], FALSE).status \in TerminalStatuses

\* C2: when a step or collaborator raised inside a pipeline run, the run
\* returned an outcome instead of letting the exception reach the scheduler,
\* and the last status write made before it returned is terminal.
C2_NoFaultEscapes ==
  \A k \in Slots :
    outcome[k].caught # Null
    => /\ pc[k] = "returned"
       /\ outcome[k].status # "raised"
       /\ calls[k] # <<>>
       /\ calls[k][Len(calls[k])].by = "pipeline"
       /\ calls[k][Len(calls[k])].status \in TerminalStatuses

\* C3: over a complete run for a task id exactly one status write is terminal
\* and it is the last write for the id; when the pipeline ran, an in_progress
\* write of the pipeline precedes it.
C3_TerminatedExactlyOnce ==
  \A k \in Slots :
    pc[k] \in {"returned", "raised", "enqueue_failed"}
    => LET terminal == {i \in DOMAIN calls[k] : calls[k][i].status \in TerminalStatuses}
       IN  /\ terminal = {Len(calls[k])}
           /\ pc[k] \in {"returned", "raised"}
              => \E i \in 1 .. (Len(calls[k]) - 1) :
                   /\ calls[k][i].by = "pipeline"
                   /\ calls[k][i].status = "in_progress"

\* C4: the statuses a polling client reads for a task id never move backward
\* in the order queued < in_progress < terminal, and after a terminal status
\* no different status is read.
C4_ReadsNeverMoveBackward ==
  [][LET rank(st) == CASE st = "queued" -> 1
                       [] st = "in_progress" -> 2
                       [] st \in TerminalStatuses -> 3
                       [] OTHER -> 0
     IN  seen.slot # 0
         => /\ seen'.slot = seen.slot
            /\ rank(seen'.status) >= rank(seen.status)
            /\ seen.status \in TerminalStatuses => seen'.status = seen.status]_vars

\* The client has read in_progress and the record has since become terminal.
C4_Witness ==
  /\ seen.slot # 0
  /\ seen.status = "in_progress"
  /\ get_agent_status(table, main_task_id[seen.slot], FALSE).status \in TerminalStatuses

C6_EnqueueFailureMarksError ==
  \A k \in Slots :
    pc[k] = "enqueue_failed"
    => /\ Len(calls[k]) = 2
       /\ calls[k][1].status = "queued"
       /\ calls[k][2].by = "dispatcher"
       /\ calls[k][2].given = calls[k][1].ret
       /\ calls[k][2].status = "error"
       /\ calls[k][2].text = "enqueue_failed"

\* C7: a request rejected for an input error (no or disallowed extension,
\* missing field, no intake data) made no update_task_status call, got no task
\* id, was never scheduled and never ran; every row of the table belongs to a
\* request that did make a call.
C7_RejectedCreatesNothing ==
  /\ \A k \in Slots :
       response[k].reason \in {"no_extension", "invalid_extension",
                               "missing_field", "no_intake_data"}
       => /\ pc[k] = "rejected"
          /\ response[k].code \in {400, 404, 422}
          /\ response[k].task_id = NoId
          /\ calls[k] = <<>>
          /\ main_task_id[k] = NoId
          /\ schedAt[k] = 0
          /\ outcome[k] = NoOutcome
  /\ \A row \in table :
       \E k \in Slots : calls[k] # <<>> /\ row.id = main_task_id[k]
  /\ nextId = 1 + Cardinality({k \in Slots : calls[k] # <<>>})

\* A parse-document request was rejected for its filename.
C7_Witness ==
  \E k \in Slots :
    /\ pc[k] = "rejected"
    /\ kind[k] = "parse"
    /\ response[k].reason \in {"no_extension", "invalid_extension"}

\* C8: update_task_status never raises and returns the effective id: the
\* supplied id when one is given, a fresh id that no record and no other
\* request has when none is given, whether or not a client exists and however
\* the upsert ends.  Stated of every call made so far and of every call that
\* could be made next.
C8_ReturnsEffectiveId ==
  /\ \A k \in Slots : \A i \in DOMAIN calls[k] :
       /\ ~calls[k][i].raised
       /\ calls[k][i].ret # NoId
       /\ calls[k][i].given # NoId => calls[k][i].ret = calls[k][i].given
  /\ \A k \in Slots, j \in Slots :
       (k # j /\ calls[k] # <<>> /\ calls[j] # <<>>)
       => calls[k][1].ret # calls[j][1].ret
  /\ \A task_id \in {NoId} \cup {main_task_id[k] : k \in Slots},
        mode \in UpsertModes, current_status \in {"queued", "error"},
        user_id \in UserIds :
       LET r == update_task_status(table, task_id, current_status, "text", Null,
                                   Null, user_id, mode, nextId, clock)
       IN  /\ ~r.raised
           /\ r.ret # NoId
           /\ r.ret = (IF task_id = NoId THEN nextId ELSE task_id)
           /\ task_id = NoId
              => /\ \A row \in table : row.id # r.ret
                 /\ \A k \in Slots : main_task_id[k] # r.ret

\* The upsert of the creating call failed, the caller still got an id, and a
\* later call was made with that id.
C8_Witness ==
  \E k \in Slots :
    /\ supabase
    /\ Len(calls[k]) >= 2
    /\ calls[k][1].given = NoId
    /\ ~calls[k][1].written
    /\ calls[k][2].given = calls[k][1].ret

\* C9: no row has details and error_message both non-null, and the row of a
\* task holds the text of the last write that landed in error_message (details
\* cleared) exactly when that write's status is error, else in details
\* (error_message cleared).
C9_TextRoutedByStatus ==
  /\ \A row \in table : ~(row.details # Null /\ row.error_message # Null)
  /\ \A k \in Slots :
       LET W(c) == c.written
           landed == SelectSeq(calls[k], W)
       IN  landed # <<>>
           => \A row \in table :
                row.id = main_task_id[k]
                => LET c == landed[Len(landed)]
                   IN  IF c.status = "error"
                       THEN row.error_message = c.text /\ row.details = Null
                       ELSE row.details = c.text /\ row.error_message = Null

\* A record whose queued write stored details has since been written with
\* status error.
C9_Witness ==
  \E k \in Slots : \E row \in table :
    /\ row.id = main_task_id[k]
    /\ Len(calls[k]) >= 2
    /\ calls[k][1].written
    /\ row.status = "error"
    /\ row.error_message # Null

\* C10: after the update_task_status calls that landed for an id the table
\* holds exactly one row for it and get_agent_status returns the status of the
\* most recent of them; an id none of whose writes landed has no row.
C10_LastWriterWins ==
  \A k \in Slots :
    LET W(c) == c.written
        landed == SelectSeq(calls[k], W)
        rows == {row \in table : row.id = main_task_id[k]}
    IN  calls[k] # <<>>
        => IF landed = <<>>
           THEN rows = {}
           ELSE /\ Cardinality(rows) = 1
                /\ get_agent_status(table, main_task_id[k], FALSE).status
                     = landed[Len(landed)].status

\* Three writes have landed for one id.
C10_Witness ==
  \E k \in Slots :
    /\ Len(calls[k]) >= 3
    /\ \A i \in DOMAIN calls[k] : calls[k][i].written

\* C11: get_agent_status returns a value in every case and keeps its sentinels
\* apart: for the id of any request and for an id no request has, it returns
\* error_fetching exactly when there is no client or the query fails,
\* not_found exactly when the query succeeds and the table has no row for the
\* id, and otherwise the stored row.
C11_SentinelsKeptApart ==
  \A task_id \in {main_task_id[k] : k \in Slots} \cup {nextId}, queryFails \in BOOLEAN :
    LET got == get_agent_status(table, task_id, queryFails)
        rows == {r \in table : r.id = task_id}
    IN  /\ got.status = "error_fetching" <=> (~supabase \/ queryFails)
        /\ got.status = "not_found" <=> (supabase /\ ~queryFails /\ rows = {})
        /\ (supabase /\ ~queryFails /\ rows # {}) => got \in rows

\* A polled task has a stored terminal record, an id that was never issued has
\* none, and a query for the stored record can still fail.
C11_Witness ==
  \E k \in Slots :
    /\ supabase
    /\ seen.slot = k
    /\ get_agent_status(table, main_task_id[k], FALSE).status \in TerminalStatuses
    /\ get_agent_status(table, nextId, FALSE).status = "not_found"
    /\ get_agent_status(table, main_task_id[k], TRUE).status = "error_fetching"

C13_FetcherFailureCompletesWithIssues ==
  [][\A k \in Slots :
       \A out \in {fetch_and_extract_text_from_url(configured, c.create, c.signed,
                                                   c.download, c.filename, c.content,
                                                   c.charset) :
                     configured \in BOOLEAN, c \in FetchCalls}
                  \ {"text_document", "raises"} :
         RunCrewFinish(k, out)
         => /\ Len(calls'[k]) = Len(calls[k]) + 1
            /\ calls'[k][Len(calls'[k])].status = "completed_with_issues"]_vars

\* C14: fetch_and_extract_text_from_url never raises: every call returns a
\* string, for every way its configuration, client creation, signed-URL
\* generation, download and parsing can fail.
C14_FetcherNeverRaises ==
  fetched.at = "done" => fetched.result # "raises"

\* C15: in a drafting run whose database insert raised (after the upload
\* succeeded), the storage object is removed by exactly one remove call, made
\* before the error write, the run's last status write is error with the
\* message of the database step, and the run returns an error outcome.
C15_InsertFailureCompensated ==
  \A k \in Slots :
    (\E i \in DOMAIN ops[k] : ops[k][i].op = "insert" /\ ops[k][i].res = "raises")
    => LET removes == {i \in DOMAIN ops[k] : ops[k][i].op = "remove"}
       IN  /\ Cardinality(removes) = 1
           /\ \A i \in removes :
                /\ ops[k][i].at = Len(calls[k]) - 1
                /\ ops[k][i].res = "ok" => k \notin storage
           /\ pc[k] = "returned"
           /\ outcome[k].status = "error"
           /\ calls[k][Len(calls[k])].by = "pipeline"
           /\ calls[k][Len(calls[k])].status = "error"
           /\ calls[k][Len(calls[k])].text = "db_record_failed"

\* C16: in a drafting run whose database insert returned no row, or a row
\* without an id, the uploaded object is removed from storage by one remove
\* call and the run's last status write is error; the run does not end
\* completed or without a terminal write.
C16_InsertWithoutIdIsFailure ==
  \A k \in Slots :
    (\E i \in DOMAIN ops[k] :
       ops[k][i].op = "insert" /\ ops[k][i].res \in {"no_row", "row_without_id"})
    => LET removes == {i \in DOMAIN ops[k] : ops[k][i].op = "remove"}
       IN  /\ Cardinality(removes) = 1
           /\ \A i \in removes : ops[k][i].res = "ok" => k \notin storage
           /\ pc[k] = "returned"
           /\ outcome[k].status = "error"
           /\ calls[k][Len(calls[k])].by = "pipeline"
           /\ calls[k][Len(calls[k])].status = "error"
           /\ \A i \in DOMAIN calls[k] : calls[k][i].status # "completed"

\* C17: in a drafting run whose stage output is blank after trimming, the
\* run's last status write is error with the message that the LLM did not
\* produce a document string, the run returns an error outcome, and it makes
\* no storage upload and no database insert.
C17_BlankOutputIsError ==
  \A k \in Slots :
    (\E i \in DOMAIN ops[k] : ops[k][i].op = "kickoff" /\ ops[k][i].res = "blank")
    => /\ pc[k] = "returned"
       /\ outcome[k].status = "error"
       /\ calls[k][Len(calls[k])].by = "pipeline"
       /\ calls[k][Len(calls[k])].status = "error"
       /\ calls[k][Len(calls[k])].text = "llm_failed_no_document_string"
       /\ \A i \in DOMAIN ops[k] : ops[k][i].op \notin {"upload", "insert"}

\* C18: whenever a drafting run makes its pre-requisite checks without an LLM
\* or without a storage/database client, it writes status error as its next
\* and last write and returns an error outcome, having made no external call
\* (no template load, LLM call, upload or insert), and storage and the
\* documents table are untouched.
C18_PreflightRefusesBeforeExternalCalls ==
  [][\A k \in Slots, supabase_client \in BOOLEAN, template \in {"not_found", "empty", "text"} :
       (DraftPreflight(k, supabase_client, template) /\ (~llm[k] \/ ~supabase_client))
       => /\ Len(calls'[k]) = Len(calls[k]) + 1
          /\ calls'[k][Len(calls'[k])].by = "pipeline"
          /\ calls'[k][Len(calls'[k])].status = "error"
          /\ calls'[k][Len(calls'[k])].text \in {"llm_not_available", "supabase_not_available"}
          /\ pc'[k] = "returned"
          /\ outcome'[k].status = "error"
          /\ ops'[k] = <<>>
          /\ storage' = storage
          /\ documents' = documents]_vars

\* A drafting run with an LLM but without a storage client has ended with the
\* error record of the pre-requisite check and made no external call.
C18_Witness ==
  \E k \in Slots : \E row \in table :
    /\ kind[k] = "draft"
    /\ llm[k]
    /\ pc[k] = "returned"
    /\ ops[k] = <<>>
    /\ row.id = main_task_id[k]
    /\ row.status = "error"
    /\ row.error_message = "supabase_not_available"

\* C19: a drafting run writes status completed only as its last write, after
\* the template was loaded, a non-empty document generated, the upload made
\* and the insert returned a row with an id -- each of these performed exactly
\* once, the upload before the insert, all before the completed write -- and
\* the result stored with it holds document_id, storage_path, filename, bucket.
C19_CompletedOnlyOnFullSuccess ==
  \A k \in Slots :
    kind[k] = "draft" =>
      \A i \in 1 .. Len(calls[k]) :
        (calls[k][i].by = "pipeline" /\ calls[k][i].status = "completed") =>
          /\ i = Len(calls[k])
          /\ pc[k] = "returned"
          /\ outcome[k].status = "success"
          /\ Len(ops[k]) = 4
          /\ ops[k][1].op = "load_template" /\ ops[k][1].res = "text"
          /\ ops[k][2].op = "kickoff" /\ ops[k][2].res = "document"
          /\ ops[k][3].op = "upload" /\ ops[k][3].res = "ok"
          /\ ops[k][4].op = "insert" /\ ops[k][4].res = "row_with_id"
          /\ \A j \in 1 .. 4 : ops[k][j].at < i
          /\ k \in storage
          /\ k \in documents
          /\ calls[k][i].written =>
               \E row \in table :
                 /\ row.id = main_task_id[k]
                 /\ row.status = "completed"
                 /\ result_data_keys(row.result)
                      = {"document_id", "storage_path", "filename", "bucket"}

\* A drafting run has returned success and its completed record is stored.
C19_Witness ==
  \E k \in Slots : \E row \in table :
    /\ kind[k] = "draft"
    /\ pc[k] = "returned"
    /\ outcome[k].status = "success"
    /\ row.id = main_task_id[k]
    /\ row.status = "completed"
    /\ row.result = "document_metadata"

\* C20: every drafting run in which the template load, the stage execution
\* (raising or yielding a blank document), the upload or the insert failed
\* ends with an error write as its last write, whose message is the one of the
\* stage that failed, and whose stored result holds the error text and the
\* stack trace.
C20_EveryFailureBranchWritesError ==
  \A k \in Slots :
    (kind[k] = "draft" /\ pc[k] \in {"returned", "raised"}) =>
      \A j \in 1 .. Len(ops[k]) :
        LET o == ops[k][j]
            message ==
              CASE o.op = "load_template" /\ o.res \in {"not_found", "empty"} ->
                     "template_load_failed"
                [] o.op = "kickoff" /\ o.res = "kickoff_raises" -> "llm_failed_kickoff_error"
                [] o.op = "kickoff" /\ o.res = "blank" -> "llm_failed_no_document_string"
                [] o.op = "upload" /\ o.res = "raises" -> "upload_failed"
                [] o.op = "insert" /\ o.res = "raises" -> "db_record_failed"
                [] o.op = "insert" /\ o.res \in {"no_row", "row_without_id"} ->
                     "db_insert_no_id"
                [] OTHER -> Null
        IN  message # Null =>
              /\ Len(calls[k]) > 0
              /\ LET last == calls[k][Len(calls[k])]
                 IN  /\ last.by = "pipeline"
                     /\ last.status = "error"
                     /\ last.text = message
                     /\ last.written =>
                          \E row \in table :
                            /\ row.id = main_task_id[k]
                            /\ row.status = "error"
                            /\ {"error_details", "traceback"}
                                 \subseteq result_data_keys(row.result)

\* C21: a parsing run in which a step raised (the crew kickoff, or the reading
\* of the parsing output) ends by returning outcome error with its task id,
\* and its last status write is error with the processing-error message; the
\* stored result holds the error text and the stack trace.
C21_RaisedStepCaughtAtBoundary ==
  \A k \in Slots :
    (kind[k] = "parse" /\ pc[k] \in {"returned", "raised"} /\ outcome[k].caught # Null) =>
      /\ pc[k] = "returned"
      /\ outcome[k].status = "error"
      /\ outcome[k].task_id = main_task_id[k]
      /\ Len(calls[k]) > 0
      /\ LET last == calls[k][Len(calls[k])]
         IN  /\ last.by = "pipeline"
             /\ last.status = "error"
             /\ last.text = "processing_error"
             /\ last.written =>
                  \E row \in table :
                    /\ row.id = main_task_id[k]
                    /\ row.status = "error"
                    /\ row.error_message = "processing_error"
                    /\ result_data_keys(row.result) = {"error_details", "traceback"}

\* C22: once the dispatcher has created a record and scheduled its run, every
\* further write to the record is made by the pipeline run that was given its
\* task id, and no write follows a write of a terminal status.
C22_SingleOwnerPerRecord ==
  \A k \in Slots :
    schedAt[k] # 0 =>
      \A i \in (schedAt[k] + 1) .. Len(calls[k]) :
        /\ calls[k][i].by = "pipeline"
        /\ calls[k][i].given = main_task_id[k]
        /\ calls[k][i - 1].status \notin TerminalStatuses

\* The file types the fetcher extracts text from.
SupportedExtensions ==
  {<<".", "p", "d", "f">>, <<".", "d", "o", "c", "x">>, <<".", "t", "x", "t">>}

\* The call got as far as a downloaded file: the tool is configured, the
\* client was created, a signed URL was generated and the download succeeded.
Downloaded ==
  /\ fetched.at = "done"
  /\ envSupabase
  /\ fetched.args.create = "ok"
  /\ fetched.args.signed = "url"
  /\ fetched.args.download = "ok"

C24_PlainTextRoundTrip ==
  LET c == Flatten(fetched.args.content.parts)
  IN  (/\ Downloaded
       /\ Lower(SplitExt(fetched.args.filename)) = <<".", "t", "x", "t">>
       /\ fetched.args.content.error = "none"
       /\ c # <<>>)
      => /\ fetched.result = "text_document"
         /\ fetched.text = c

\* C25: when the download raises a requests exception, the fetcher returns the
\* fetch-error string, which carries the text of the exception, begins no text
\* extraction, and does not raise.
C25_NetworkErrorReturned ==
  (/\ fetched.at = "done"
   /\ envSupabase
   /\ fetched.args.create = "ok"
   /\ fetched.args.signed = "url"
   /\ fetched.args.download = "request_exception")
  => /\ fetched.result = "text_fetch_error"
     /\ "str(e)" \in message_fields(fetched.result)
     /\ fetched.steps[Len(fetched.steps)] = "requests_get"
     /\ "extract" \notin {fetched.steps[i] : i \in DOMAIN fetched.steps}

\* The download of a PDF raised and the fetch-error string was returned.
C25_Witness ==
  /\ fetched.at = "done"
  /\ fetched.args.signed = "url"
  /\ fetched.args.download = "request_exception"
  /\ fetched.args.filename = <<"a", ".", "p", "d", "f">>
  /\ fetched.result = "text_fetch_error"

\* The texts of a sequence joined by newline.
RECURSIVE JoinByNewline(_)
JoinByNewline(parts) ==
  IF parts = <<>> THEN <<>>
  ELSE IF Len(parts) = 1 THEN Head(parts)
  ELSE Head(parts) \o <<"\n">> \o JoinByNewline(Tail(parts))

\* C26: whenever the text of a downloaded file is empty -- the page texts of a
\* .pdf concatenated, the paragraph texts of a .docx joined by newline, the
\* body of a .txt -- the fetcher returns the empty-content string, and not the
\* document as content.
C26_EmptyContentSentinel ==
  LET extension == Lower(SplitExt(fetched.args.filename))
      parts == fetched.args.content.parts
      empty == CASE extension = <<".", "d", "o", "c", "x">> -> JoinByNewline(parts) = <<>>
                 [] OTHER -> Flatten(parts) = <<>>
  IN  (/\ Downloaded
       /\ extension \in SupportedExtensions
       /\ fetched.args.content.error = "none"
       /\ empty)
      => fetched.result = "text_empty_content"

\* C27: all pipeline runs of one process execute their stages in the same
\* mode: no two runs differ in whether they ran the crew with the LLM or
\* produced the mock outputs.
C27_OneModePerProcess ==
  \A j, k \in DOMAIN calls :
    \A a \in DOMAIN calls[j], b \in DOMAIN calls[k] :
      (/\ calls[j][a].text \in {"generating_followups", "generating_mock_followups"}
       /\ calls[k][b].text \in {"generating_followups", "generating_mock_followups"})
      => calls[j][a].text = calls[k][b].text

\* C28: in a parsing run the first write of the pipeline is in_progress
\* "AI processing started" and is made before stage 1 begins; the in_progress
\* write that announces the follow-up task generation is made before stage 2
\* has completed; a completed or completed_with_issues write is the last
\* write and is made after both stages.  (With an LLM both stages have
\* completed when the kickoff has returned.)
C28_StatusInStepWithStages ==
  \A k \in Slots :
    (kind[k] = "parse" /\ schedAt[k] # 0) =>
      LET first == schedAt[k] + 1
          kickoffs == {o \in DOMAIN ops[k] : ops[k][o].op = "kickoff"}
      IN  \A i \in first .. Len(calls[k]) :
            /\ i = first => /\ calls[k][i].status = "in_progress"
                            /\ calls[k][i].text = "ai_started"
                            /\ \A o \in kickoffs : ops[k][o].at >= i
            /\ calls[k][i].text \in {"generating_followups", "generating_mock_followups"}
               => /\ i > first
                  /\ calls[k][i].status = "in_progress"
                  /\ \A o \in kickoffs : ops[k][o].res = "ok" => ops[k][o].at >= i
            /\ calls[k][i].status \in {"completed", "completed_with_issues"}
               => /\ i = Len(calls[k])
                  /\ i > first + 1
                  /\ \A o \in kickoffs : ops[k][o].res = "ok" /\ ops[k][o].at < i

\* C29: whenever a parsing run reads a stage-1 raw output that is present but
\* is not the structured output (text that is not JSON, or JSON that is not
\* an object), its last status write is completed, the stored result has
\* text_extraction_status "unknown_parser_output" and the raw string, and the
\* run returns success.
C29_UnstructuredOutputStillSucceeds ==
  [][\A k \in Slots :
       \A out \in {"not_json", "json_not_object"} :
         RunCrewFinish(k, out)
         => LET c == calls'[k][Len(calls'[k])]
            IN  /\ Len(calls'[k]) = Len(calls[k]) + 1
                /\ c.by = "pipeline"
                /\ c.status = "completed"
                /\ pc'[k] = "returned"
                /\ outcome'[k].status = "success"
                /\ c.written
                   => \E row \in table' :
                        /\ row.id = main_task_id[k]
                        /\ row.status = "completed"
                        /\ final_status_details(row.result).text_extraction_status
                             = "unknown_parser_output"
                        /\ "parsing_task_output_raw"
                             \in final_status_details(row.result).keys]_vars

\* C30: a parsing run whose runner has no LLM makes no external call, and once
\* it has ended its writes are in_progress "AI processing started",
\* in_progress "Generating mock follow-up tasks" and completed, in this order
\* after the dispatcher's queued; it has returned success, and the result it
\* stored carries the mock task definitions as crew_output.
C30_MockRunEndToEnd ==
  \A k \in Slots :
    (kind[k] = "parse" /\ schedAt[k] # 0 /\ ~llm[k]) =>
      /\ ops[k] = <<>>
      /\ pc[k] \in {"scheduled", "p_kickoff", "p_finish", "returned"}
      /\ pc[k] = "returned" =>
           /\ outcome[k].status = "success"
           /\ outcome[k].task_id = main_task_id[k]
           /\ [i \in DOMAIN calls[k] |-> calls[k][i].status]
                = <<"queued", "in_progress", "in_progress", "completed">>
           /\ [i \in DOMAIN calls[k] |-> calls[k][i].by]
                = <<"dispatcher", "pipeline", "pipeline", "pipeline">>
           /\ calls[k][3].text = "generating_mock_followups"
           /\ actual_crew_result(llm[k]) = "mock_task_definitions"
           /\ calls[k][4].written =>
                \E row \in table :
                  /\ row.id = main_task_id[k]
                  /\ row.status = "completed"
                  /\ "crew_output" \in final_status_details(row.result).keys

\* A parsing run without an LLM has returned success and its completed record
\* is stored.
C30_Witness ==
  \E k \in Slots : \E row \in table :
    /\ kind[k] = "parse"
    /\ ~llm[k]
    /\ pc[k] = "returned"
    /\ outcome[k].status = "success"
    /\ ops[k] = <<>>
    /\ row.id = main_task_id[k]
    /\ row.status = "completed"

\* C31: when the remove of the uploaded object that follows a failed database
\* insert itself fails, the drafting run still ends with an error write about
\* the insert as its last write and returns an error outcome; no exception
\* leaves the run.  (The remove is reached only on the branch of an insert that
\* returned no row; for an insert that raised see C15.)
C31_CleanupFailureOnlyLogged ==
  \A k \in Slots :
    (\E i \in DOMAIN ops[k] : ops[k][i].op = "remove" /\ ops[k][i].res = "raises")
    => /\ \E i \in DOMAIN ops[k] :
            ops[k][i].op = "insert" /\ ops[k][i].res \in {"raises", "no_row"}
       /\ pc[k] = "returned"
       /\ outcome[k].status = "error"
       /\ outcome[k].task_id = main_task_id[k]
       /\ calls[k][Len(calls[k])].by = "pipeline"
       /\ calls[k][Len(calls[k])].status = "error"
       /\ calls[k][Len(calls[k])].text \in {"db_insert_no_id", "db_record_failed"}

\* The remove failed after an insert that returned no row: the object is
\* still in storage and the error record of the insert is stored.
C31_Witness ==
  \E k \in Slots : \E row \in table :
    /\ \E i \in DOMAIN ops[k] : ops[k][i].op = "remove" /\ ops[k][i].res = "raises"
    /\ k \in storage
    /\ pc[k] = "returned"
    /\ row.id = main_task_id[k]
    /\ row.status = "error"
    /\ row.error_message = "db_insert_no_id"

\* C32: no status write of a drafting run is completed_with_issues, and when
\* a drafting run has ended either its last status write is completed and
\* both the storage object and the documents row of the task exist, or its
\* last status write is error, no documents row of the task exists, and no
\* object of the run is in storage unless the remove of it failed.
C32_DraftingAllOrNothing ==
  \A k \in Slots :
    kind[k] = "draft" =>
      /\ \A i \in DOMAIN calls[k] : calls[k][i].status # "completed_with_issues"
      /\ pc[k] \in {"returned", "raised"} =>
           LET last == calls[k][Len(calls[k])].status
           IN  \/ /\ last = "completed"
                  /\ k \in storage
                  /\ k \in documents
               \/ /\ last = "error"
                  /\ k \notin documents
                  /\ k \in storage =>
                       \E i \in DOMAIN ops[k] :
                         ops[k][i].op = "remove" /\ ops[k][i].res = "raises"

\* C33: under any interleaving of the runs of several requests, no two
\* requests hold the same task id; every status write of a run is keyed by
\* the id the run was given at dispatch; every stored record is under the id
\* of a dispatched request, one record per id; and the record of each task
\* shows the status of the last write made for that task that reached the
\* store, so no other run has changed it.
C33_RunsWriteOnlyTheirOwnRecord ==
  \A k \in DOMAIN calls :
    /\ \A j \in DOMAIN calls :
         (j # k /\ main_task_id[j] # NoId) => main_task_id[j] # main_task_id[k]
    /\ \A i \in DOMAIN calls[k] :
         calls[k][i].by = "pipeline"
         => /\ calls[k][i].given = main_task_id[k]
            /\ calls[k][i].ret = main_task_id[k]
    /\ \A row \in table : \E j \in DOMAIN calls : row.id = main_task_id[j]
    /\ LET landed == {i \in DOMAIN calls[k] : calls[k][i].written}
           rows == {row \in table : row.id = main_task_id[k]}
       IN  /\ Cardinality(rows) = IF landed = {} THEN 0 ELSE 1
           /\ \A row \in rows :
                \E i \in landed : /\ \A h \in landed : h <= i
                                  /\ row.status = calls[k][i].status

\* Two runs are under way at the same time, each has written in_progress to
\* its own record, and the two records differ in their details.
C33_Witness ==
  \E j, k \in DOMAIN calls : \E rj, rk \in table :
    /\ j # k
    /\ pc[j] \in {"p_kickoff", "p_finish"}
    /\ pc[k] \in {"p_kickoff", "p_finish"}
    /\ rj.id = main_task_id[j]
    /\ rk.id = main_task_id[k]
    /\ rj.status = "in_progress"
    /\ rk.status = "in_progress"
    /\ rj.details # rk.details

\* C34: from dispatch to termination the stored record of a task has the
\* crew_type of its pipeline: document_parser for a parsing task,
\* document_drafter for a drafting task.
C34_CrewTypeKept ==
  \A k \in Slots : \A row \in table :
    (kind[k] # Null /\ main_task_id[k] # NoId /\ row.id = main_task_id[k])
    => row.crew_type = IF kind[k] = "parse" THEN "document_parser"
                       ELSE "document_drafter"

\* C35: when a pipeline run has ended it has returned an outcome, and the
\* outcome agrees with the last status written for its task id: success
\* exactly with completed, success_with_issues exactly with
\* completed_with_issues, error exactly with error.
C35_OutcomeAgreesWithLastStatus ==
  \A k \in Slots :
    pc[k] \in {"returned", "raised"} =>
      LET last == calls[k][Len(calls[k])].status
      IN  /\ pc[k] = "returned"
          /\ outcome[k].status \in {"success", "success_with_issues", "error"}
          /\ outcome[k].status = "success" <=> last = "completed"
          /\ outcome[k].status = "success_with_issues" <=> last = "completed_with_issues"
          /\ outcome[k].status = "error" <=> last = "error"

\* The path the tests expect for a run (test_crew_runner.py 478-481):
\* "<case_id>/<template_id without .jinja2>_<case_id without hyphens>_
\* <task id without hyphens>.txt".
ExpectedPath(t, c, id) ==
  c \o <<"/">> \o replace(t, <<".", "j", "i", "n", "j", "a", "2">>) \o <<"_">> \o replace(c, <<"-">>)
    \o <<"_">> \o replace(id, <<"-">>) \o <<".", "t", "x", "t">>

\* C36: the storage path of a drafting run is derived from the template id, the
\* case id and the run's task id; the upload, the documents row, the
\* compensating remove and the completed result all carry that one path; and
\* for one template and case, runs with different task ids get different paths.
C36_OnePathPerRun ==
  /\ \A k \in Slots :
       \E t \in TemplateIds, c \in CaseIds :
         /\ \A i \in DOMAIN ops[k] :
              ops[k][i].op \in {"upload", "insert", "remove"}
                => ops[k][i].path = ExpectedPath(t, c, uuid_text(main_task_id[k]))
         /\ (kind[k] = "draft" /\ \E i \in DOMAIN calls[k] : calls[k][i].status = "completed")
              => completed_result(k).storage_path = ExpectedPath(t, c, uuid_text(main_task_id[k]))
  /\ \A t \in TemplateIds, c \in CaseIds :
       \A n, m \in 1 .. nextId :
         n # m => storage_file_path(t, c, uuid_text(n)) # storage_file_path(t, c, uuid_text(m))

\* A drafting run uploaded its document, the insert returned no row, and the
\* remove was issued for the uploaded path.
C36_Witness ==
  \E k \in Slots : \E i, j, l \in DOMAIN ops[k] :
    /\ ops[k][i].op = "upload" /\ ops[k][i].res = "ok"
    /\ ops[k][j].op = "insert"
    /\ ops[k][l].op = "remove"
    /\ ops[k][i].path # <<>>
    /\ ops[k][j].path = ops[k][i].path
    /\ ops[k][l].path = ops[k][i].path

C39_LastUpdatedRefreshed ==
  [][/\ \A r \in table, r2 \in table' :
          r.id = r2.id => r2.last_updated >= r.last_updated
     /\ \A k \in Slots :
          \A i \in (Len(calls[k]) + 1) .. Len(calls'[k]) :
            calls'[k][i].written
            => \E r2 \in table' :
                 /\ r2.id = calls'[k][i].ret
                 /\ r2.last_updated = clock' - 1
                 /\ \A r \in table : r.id = r2.id => r2.last_updated > r.last_updated]_vars

\* A record was created by one write and updated by a later one: its
\* last_updated is later than its created_at.
C39_Witness ==
  \E k \in Slots : \E row \in table :
    /\ row.id = main_task_id[k]
    /\ Cardinality({i \in DOMAIN calls[k] : calls[k][i].written}) >= 2
    /\ row.last_updated > row.created_at

====
